---- MODULE Spec2Model ----
(***************************************************************************)
(* Model of the browser-side image utilities (imageUtils: decode, resize,  *)
(* convert, SVG export) and of the FusionControls view of big-AGI.         *)
(*                                                                         *)
(* Every image function is one call: the call is made, the browser later   *)
(* delivers the image's load or error event (or never does), and the       *)
(* handler runs to completion on the main thread.  `calls` records, in     *)
(* order, the browser and promise operations the code performed.           *)
(***************************************************************************)
EXTENDS Integers, Naturals, Sequences, FiniteSets, TLC

VARIABLES
    fn,              \* the image function called: "none" before any call
    pc,              \* "idle" | "pending" (awaiting load/error) | "encoding" | "settled"
    resizeMode,      \* resizeBase64ImageIfNeeded's resizeMode argument
    originalWidth,   \* image.width of the decoded image
    originalHeight,  \* image.height of the decoded image
    newWidth,        \* the handler's newWidth at its end
    newHeight,       \* the handler's newHeight at its end
    event,           \* the image event delivered: "none" | "load" | "error" (also a conversion that threw)
    calls,           \* the operations performed so far, in order
    result,          \* "pending" | "null" | "value" | "rejected" | "false" | "url"
    props,           \* FusionControls props of the last render
    view,            \* what FusionControls rendered for them
    invoked          \* the callback the last click invoked

imageVars == <<fn, pc, resizeMode, originalWidth, originalHeight, newWidth, newHeight, event, calls, result>>
fusionVars == <<props, view, invoked>>
vars == <<fn, pc, resizeMode, originalWidth, originalHeight, newWidth, newHeight, event, calls, result, props, view, invoked>>

----------------------------------------------------------------------------
(* Bounds of the model: the image dimensions the calls are made with.      *)

\* widths and heights 1..SmallMax (extreme aspect ratios)
SmallMax == 3
\* every size bound of the code, and the Delta sizes on each side of it
Delta == 2
\* multiples k * Stride, k in 1..Steps (sizes between and beyond the bounds)
Stride == 448
Steps == 9

----------------------------------------------------------------------------
(* Program constants of resizeBase64ImageIfNeeded.                         *)

maxSideAnthropic == 1568
maxSideGoogle == 3072
maxSideOpenAI == 2048
minSideOpenAI == 768
lowResSide == 512
thumbnailSide128 == 128
thumbnailSide256 == 256

maxSideThumbnail(mode) == IF mode = "thumbnail-128" THEN thumbnailSide128 ELSE thumbnailSide256

LLMImageResizeMode == {"openai-low-res", "openai-high-res", "google", "anthropic", "thumbnail-128", "thumbnail-256"}

\* a resizeMode outside the type reaches the switch's default at run time
ResizeModes == LLMImageResizeMode \cup {"unsupported"}

SizeBounds == {maxSideAnthropic, maxSideGoogle, maxSideOpenAI, minSideOpenAI, lowResSide, thumbnailSide128, thumbnailSide256}

Dims == (1..SmallMax)
        \cup UNION {((b - Delta)..(b + Delta)) : b \in SizeBounds}
        \cup {k * Stride : k \in 1..Steps}

----------------------------------------------------------------------------
(* Math.round((num / den) * side), for positive integers.                  *)

RECURSIVE OddPart(_)
OddPart(n) == IF n % 2 = 0 THEN OddPart(n \div 2) ELSE n

\* The exact value num*side/den lies halfway between two integers.
IsTie(num, den, side) == (2 * num * side) % (2 * den) = den

\* Math.round rounds to the nearest integer, a tie towards +infinity.  The
\* code rounds the double (num / den) * side, not the exact quotient: off a
\* tie the two agree (the exact value is at least 1/(2*den) away from a
\* half), on a tie the double is exact when side is 2^k or 3 * 2^k, and for
\* any other side (1568 = 49 * 32) it may fall just below the half, as
\* (1 / 3136) * 1568 = 0.49999999999999994 does, and round down.
\* (mutant) Math.floor in place of Math.round
RoundScaledFloor(num, den, side) == {(num * side) \div den}

RoundScaled(num, den, side) ==
    LET up == (2 * num * side + den) \div (2 * den)
    IN  IF IsTie(num, den, side) /\ OddPart(side) \notin {1, 3}
        THEN {up - 1, up}
        ELSE {up}

----------------------------------------------------------------------------
(* The target dimensions: the switch of image.onload.                      *)

Target(w, h, sr) == [w |-> w, h |-> h, shouldResize |-> sr, exit |-> "none"]

\* (mutant) the ratio inverted: round((originalWidth / originalHeight) * maxSide)
FitLongEdgeInverted(ow, oh, maxSide) ==
    IF ow > oh
    THEN {<<maxSide, s>> : s \in RoundScaled(ow, oh, maxSide)}
    ELSE {<<s, maxSide>> : s \in RoundScaled(oh, ow, maxSide)}

\* if (originalWidth > originalHeight) { newWidth = maxSide; newHeight = round(..) } else { .. }
FitLongEdge(ow, oh, maxSide) ==
    IF ow > oh
    THEN {<<maxSide, s>> : s \in RoundScaled(oh, ow, maxSide)}
    ELSE {<<s, maxSide>> : s \in RoundScaled(ow, oh, maxSide)}

\* (mutant) shouldResize = true set before the size test
FitWithinAlwaysResize(ow, oh, maxSide) ==
    IF ow > maxSide \/ oh > maxSide
    THEN {Target(d[1], d[2], TRUE) : d \in FitLongEdge(ow, oh, maxSide)}
    ELSE {Target(ow, oh, TRUE)}

\* if (originalWidth > maxSide || originalHeight > maxSide) { shouldResize = true; fit }
FitWithin(ow, oh, maxSide) ==
    IF ow > maxSide \/ oh > maxSide
    THEN {Target(d[1], d[2], TRUE) : d \in FitLongEdge(ow, oh, maxSide)}
    ELSE {Target(ow, oh, FALSE)}

\* 2. Scale down to 768px on the shortest side (if larger)
ShortSideStage(t) ==
    IF t.w > t.h /\ t.h > minSideOpenAI
    THEN {Target(s, minSideOpenAI, TRUE) : s \in RoundScaled(t.w, t.h, minSideOpenAI)}
    ELSE IF t.w < t.h /\ t.w > minSideOpenAI
    THEN {Target(minSideOpenAI, s, TRUE) : s \in RoundScaled(t.h, t.w, minSideOpenAI)}
    ELSE {t}

OpenAIHighRes(ow, oh) == UNION {ShortSideStage(t) : t \in FitWithin(ow, oh, maxSideOpenAI)}

OpenAILowRes(ow, oh) ==
    IF ow <= lowResSide /\ oh <= lowResSide
    THEN {[Target(ow, oh, FALSE) EXCEPT !.exit = "resolveNull"]}
    ELSE {Target(d[1], d[2], TRUE) : d \in FitLongEdge(ow, oh, lowResSide)}

Thumbnail(mode, ow, oh) ==
    {[t EXCEPT !.shouldResize = TRUE] : t \in FitWithin(ow, oh, maxSideThumbnail(mode))}

ResizeTargets(mode, ow, oh) ==
    CASE mode = "anthropic" -> FitWithin(ow, oh, maxSideAnthropic)
      [] mode = "google" -> FitWithin(ow, oh, maxSideGoogle)
      [] mode = "openai-high-res" -> OpenAIHighRes(ow, oh)
      [] mode = "openai-low-res" -> OpenAILowRes(ow, oh)
      [] mode \in {"thumbnail-128", "thumbnail-256"} -> Thumbnail(mode, ow, oh)
      [] OTHER -> {[Target(ow, oh, FALSE) EXCEPT !.exit = "reject"]}

----------------------------------------------------------------------------
(* What image.onload of resizeBase64ImageIfNeeded does with a target: the  *)
(* operations in order, and the value the promise settles with.            *)

\* The promise operations: the first one performed settles the promise
\* (a later resolve or reject of a settled promise changes nothing); the
\* return or uncaught throw of an async function settles its promise.
Settles == {"resolveNull", "resolveValue", "reject", "returnNull", "returnValue", "returnFalse", "returnUrl", "throw"}

SettleCalls(cs) == SelectSeq(cs, LAMBDA c : c \in Settles)

PromiseState(cs) ==
    IF SettleCalls(cs) = <<>> THEN "pending"
    ELSE LET first == Head(SettleCalls(cs))
         IN  CASE first \in {"resolveNull", "returnNull"} -> "null"
               [] first \in {"resolveValue", "returnValue"} -> "value"
               [] first = "returnFalse" -> "false"
               [] first = "returnUrl" -> "url"
               [] OTHER -> "rejected"

Count(cs, c) == Len(SelectSeq(cs, LAMBDA x : x = c))

\* canvas, 2D context, draw, encode: ctxOk is whether getContext('2d')
\* returned a context, encOk whether canvasToDataURLAndMimeType returned
\* (it throws otherwise, into the handler's catch).
DrawAndEncode(ctxOk, encOk) ==
    <<"createCanvas", "getContext">> \o
        (IF ~ctxOk THEN <<"reject">>
         ELSE <<"drawImage", "canvasToDataURL">> \o
                (IF encOk THEN <<"resolveValue">> ELSE <<"reject">>))

\* (mutant) resolve(null) without the return that follows it
ResizeOnLoadCallsNoReturn(t, ctxOk, encOk) ==
    IF t.exit = "reject" THEN <<"reject">>
    ELSE IF t.exit = "resolveNull" THEN <<"resolveNull">>
    ELSE IF ~t.shouldResize THEN <<"resolveNull">> \o DrawAndEncode(ctxOk, encOk)
    ELSE DrawAndEncode(ctxOk, encOk)

ResizeOnLoadCalls(t, ctxOk, encOk) ==
    IF t.exit = "reject" THEN <<"reject">>
    ELSE IF t.exit = "resolveNull" THEN <<"resolveNull">>
    ELSE IF ~t.shouldResize THEN <<"resolveNull">>
    ELSE DrawAndEncode(ctxOk, encOk)

\* image.onerror of getImageDimensions, convertBase64Image and
\* resizeBase64ImageIfNeeded: console.warn, then reject(new Error(..)).
\* (mutant) the error handler resolving instead of rejecting
OnErrorResolvesNull == <<"resolveNull">>

OnErrorCalls == <<"reject">>

----------------------------------------------------------------------------
(* The image functions.                                                    *)

ImageFunctions == {"getImageDimensions", "convertBase64Image", "resizeBase64ImageIfNeeded", "renderSVGToPNGBlob", "showImageDataURLInNewTab"}

NoProps == [isFusing |-> FALSE, isInterrupted |-> FALSE, isMobile |-> FALSE, isUsable |-> FALSE,
            llmComponent |-> FALSE, llmVendorIcon |-> FALSE, fusionAvatarTooltip |-> FALSE,
            onIconClick |-> FALSE, fusingProgressComponent |-> FALSE, factoryIcon |-> FALSE]

Init ==
    /\ fn = "none"
    /\ pc = "idle"
    /\ resizeMode = "none"
    /\ originalWidth = 0
    /\ originalHeight = 0
    /\ newWidth = 0
    /\ newHeight = 0
    /\ event = "none"
    /\ calls = <<>>
    /\ result = "pending"
    /\ props = NoProps
    /\ view = [rendered |-> FALSE]
    /\ invoked = "none"

\* The call: new Image(), the handlers are set, image.src starts the decoding
\* of an image that, if it decodes, is w by h.
StartDecode(f, mode, w, h) ==
    /\ fn' = f
    /\ pc' = "pending"
    /\ resizeMode' = mode
    /\ originalWidth' = w
    /\ originalHeight' = h
    /\ UNCHANGED <<newWidth, newHeight, event, calls, result, fusionVars>>

\* A handler or continuation ran: cs are the operations it performed.
Ran(ev, cs, nextPc) ==
    /\ event' = ev
    /\ calls' = calls \o cs
    /\ result' = PromiseState(calls \o cs)
    /\ pc' = nextPc

\* ---- resizeBase64ImageIfNeeded

CallResize ==
    /\ pc = "idle"
    /\ \E mode \in ResizeModes, w \in Dims, h \in Dims :
          StartDecode("resizeBase64ImageIfNeeded", mode, w, h)

ResizeOnLoad ==
    /\ fn = "resizeBase64ImageIfNeeded" /\ pc = "pending"
    /\ \E t \in ResizeTargets(resizeMode, originalWidth, originalHeight), ctxOk \in BOOLEAN, encOk \in BOOLEAN :
          /\ newWidth' = t.w
          /\ newHeight' = t.h
          /\ Ran("load", ResizeOnLoadCalls(t, ctxOk, encOk), "settled")
    /\ UNCHANGED <<fn, resizeMode, originalWidth, originalHeight, fusionVars>>

ResizeOnError ==
    /\ fn = "resizeBase64ImageIfNeeded" /\ pc = "pending"
    /\ Ran("error", OnErrorCalls, "settled")
    /\ UNCHANGED <<fn, resizeMode, originalWidth, originalHeight, newWidth, newHeight, fusionVars>>

\* ---- getImageDimensions

CallDimensions ==
    /\ pc = "idle"
    /\ \E w \in Dims, h \in Dims : StartDecode("getImageDimensions", "none", w, h)

DimensionsOnLoad ==
    /\ fn = "getImageDimensions" /\ pc = "pending"
    /\ Ran("load", <<"resolveValue">>, "settled")
    /\ UNCHANGED <<fn, resizeMode, originalWidth, originalHeight, newWidth, newHeight, fusionVars>>

DimensionsOnError ==
    /\ fn = "getImageDimensions" /\ pc = "pending"
    /\ Ran("error", OnErrorCalls, "settled")
    /\ UNCHANGED <<fn, resizeMode, originalWidth, originalHeight, newWidth, newHeight, fusionVars>>

\* ---- convertBase64Image: the canvas has the image's size

CallConvert ==
    /\ pc = "idle"
    /\ \E w \in Dims, h \in Dims : StartDecode("convertBase64Image", "none", w, h)

ConvertOnLoad ==
    /\ fn = "convertBase64Image" /\ pc = "pending"
    /\ \E ctxOk \in BOOLEAN, encOk \in BOOLEAN :
          Ran("load", DrawAndEncode(ctxOk, encOk), "settled")
    /\ newWidth' = originalWidth
    /\ newHeight' = originalHeight
    /\ UNCHANGED <<fn, resizeMode, originalWidth, originalHeight, fusionVars>>

ConvertOnError ==
    /\ fn = "convertBase64Image" /\ pc = "pending"
    /\ Ran("error", OnErrorCalls, "settled")
    /\ UNCHANGED <<fn, resizeMode, originalWidth, originalHeight, newWidth, newHeight, fusionVars>>

\* ---- renderSVGToPNGBlob

\* if (!svgCode) return null; otherwise the SVG blob's object URL is created
\* and set as the image's src.
CallRenderSVG ==
    /\ pc = "idle"
    /\ fn' = "renderSVGToPNGBlob"
    /\ \E emptySvgCode \in BOOLEAN :
          IF emptySvgCode
          THEN Ran("none", <<"returnNull">>, "settled")
          ELSE Ran("none", <<"createObjectURL">>, "pending")
    /\ UNCHANGED <<resizeMode, originalWidth, originalHeight, newWidth, newHeight, fusionVars>>

\* img.onload resolves the awaited promise and the function goes on: canvas,
\* context (null: revoke and return null), background, draw, and the await
\* of asyncCanvasToBlob.
SvgOnLoadCalls(ctxOk, transparentBackground) ==
    <<"createCanvas", "getContext">> \o
        (IF ~ctxOk THEN <<"revokeObjectURL", "returnNull">>
         ELSE (IF transparentBackground THEN <<"clearRect">> ELSE <<>>) \o <<"drawImage", "asyncCanvasToBlob">>)

SvgOnLoad ==
    /\ fn = "renderSVGToPNGBlob" /\ pc = "pending"
    /\ \E ctxOk \in BOOLEAN, transparentBackground \in BOOLEAN :
          Ran("load", SvgOnLoadCalls(ctxOk, transparentBackground), IF ctxOk THEN "encoding" ELSE "settled")
    /\ UNCHANGED <<fn, resizeMode, originalWidth, originalHeight, newWidth, newHeight, fusionVars>>

\* img.onerror rejects the awaited promise: the await throws, nothing
\* catches it, and the function's promise is rejected.
SvgOnErrorCalls == <<"throw">>

SvgOnError ==
    /\ fn = "renderSVGToPNGBlob" /\ pc = "pending"
    /\ Ran("error", SvgOnErrorCalls, "settled")
    /\ UNCHANGED <<fn, resizeMode, originalWidth, originalHeight, newWidth, newHeight, fusionVars>>

\* asyncCanvasToBlob settled with a Blob or with null: revoke, return it.
SvgToBlobDone ==
    /\ fn = "renderSVGToPNGBlob" /\ pc = "encoding"
    /\ \E gotBlob \in BOOLEAN :
          calls' = calls \o <<"revokeObjectURL", IF gotBlob THEN "returnValue" ELSE "returnNull">>
    /\ result' = PromiseState(calls')
    /\ pc' = "settled"
    /\ UNCHANGED <<fn, resizeMode, originalWidth, originalHeight, newWidth, newHeight, event, fusionVars>>

\* asyncCanvasToBlob rejected (canvas.toBlob threw): the await throws.
SvgToBlobRejected ==
    /\ fn = "renderSVGToPNGBlob" /\ pc = "encoding"
    /\ calls' = calls \o <<"throw">>
    /\ result' = PromiseState(calls')
    /\ pc' = "settled"
    /\ UNCHANGED <<fn, resizeMode, originalWidth, originalHeight, newWidth, newHeight, event, fusionVars>>

\* ---- showImageDataURLInNewTab

\* try { parse the data URL; await the Blob conversion; ... } catch { return false }
CallShowImage ==
    /\ pc = "idle"
    /\ fn' = "showImageDataURLInNewTab"
    /\ \E parsed \in BOOLEAN :
          IF parsed
          THEN Ran("none", <<"convertDataURL", "convertToBlob">>, "encoding")
          ELSE Ran("error", <<"convertDataURL", "returnFalse">>, "settled")
    /\ UNCHANGED <<resizeMode, originalWidth, originalHeight, newWidth, newHeight, fusionVars>>

ShowImageBlobCalls(gotBlob) ==
    IF gotBlob THEN <<"createObjectURL", "returnUrl">> ELSE <<"returnFalse">>

ShowImageBlobDone ==
    /\ fn = "showImageDataURLInNewTab" /\ pc = "encoding"
    /\ \E gotBlob \in BOOLEAN :
          Ran(IF gotBlob THEN "none" ELSE "error", ShowImageBlobCalls(gotBlob), "settled")
    /\ UNCHANGED <<fn, resizeMode, originalWidth, originalHeight, newWidth, newHeight, fusionVars>>

NextImage ==
    \/ CallResize \/ ResizeOnLoad \/ ResizeOnError
    \/ CallDimensions \/ DimensionsOnLoad \/ DimensionsOnError
    \/ CallConvert \/ ConvertOnLoad \/ ConvertOnError
    \/ CallRenderSVG \/ SvgOnLoad \/ SvgOnError \/ SvgToBlobDone \/ SvgToBlobRejected
    \/ CallShowImage \/ ShowImageBlobDone

Spec == Init /\ [][NextImage]_vars

----------------------------------------------------------------------------
(* FusionControls: what a render shows for its props.  A prop that is a    *)
(* node, an icon or a callback is modelled by whether it is supplied.      *)

\* (mutant) the isUsable test the other way round
GenerateButtonSwapped(isFusing, isUsable) ==
    IF ~isFusing
    THEN [tooltip |-> IF isUsable THEN "Start Merge" ELSE "Retry",
          color |-> "success",
          icons |-> IF isUsable THEN {"PlayArrowRoundedIcon"} ELSE {"ReplayRoundedIcon"}]
    ELSE [tooltip |-> "Stop", color |-> "danger", icons |-> {"StopRoundedIcon"}]

\* {!props.isFusing ? <GoodTooltip ..Start Merge|Retry..> : <GoodTooltip title='Stop'>}
GenerateButton(isFusing, isUsable) ==
    IF ~isFusing
    THEN [tooltip |-> IF ~isUsable THEN "Start Merge" ELSE "Retry",
          color |-> "success",
          icons |-> IF ~isUsable THEN {"PlayArrowRoundedIcon"} ELSE {"ReplayRoundedIcon"}]
    ELSE [tooltip |-> "Stop", color |-> "danger", icons |-> {"StopRoundedIcon"}]

\* (mutant) the spinner or icon rendered beside the selector too
ProgressIconsBesideSelector(llmComponent, fusingProgressComponent, factoryIcon) ==
    IF fusingProgressComponent THEN {"CircularProgress"}
    ELSE IF factoryIcon THEN {"factory.Icon"}
    ELSE {}

\* Title Box OR LLM Selector; inside the title box: [progress] Spinner | Factory Icon
ProgressIcons(llmComponent, fusingProgressComponent, factoryIcon) ==
    IF llmComponent THEN {}
    ELSE IF fusingProgressComponent THEN {"CircularProgress"}
    ELSE IF factoryIcon THEN {"factory.Icon"}
    ELSE {}

\* [progress] Component | Title
TitleContent(p) ==
    IF p.llmComponent THEN "none"
    ELSE IF p.fusingProgressComponent THEN "fusingProgressComponent"
    ELSE IF p.isInterrupted THEN "cardTitle - Interrupted"
    ELSE "cardTitle"

FusionControls(p) ==
    [rendered |-> TRUE,
     sx |-> IF p.isMobile THEN "rayControlsMobileSx" ELSE "rayControlsSx",
     avatarTitle |-> IF p.fusionAvatarTooltip THEN "fusionAvatarTooltip" ELSE "llmLabel",
     avatarIcon |-> IF p.llmVendorIcon THEN "llmVendorIcon" ELSE "BuildCircleIcon",
     middle |-> IF p.llmComponent THEN "llmComponent" ELSE "titleSheet",
     progressIcons |-> ProgressIcons(p.llmComponent, p.fusingProgressComponent, p.factoryIcon),
     title |-> TitleContent(p),
     generate |-> GenerateButton(p.isFusing, p.isUsable),
     remove |-> "RemoveCircleOutlineRoundedIcon"]

Props == [isFusing : BOOLEAN, isInterrupted : BOOLEAN, isMobile : BOOLEAN, isUsable : BOOLEAN,
          llmComponent : BOOLEAN, llmVendorIcon : BOOLEAN, fusionAvatarTooltip : BOOLEAN,
          onIconClick : BOOLEAN, fusingProgressComponent : BOOLEAN, factoryIcon : BOOLEAN]

\* React renders the component with the props its parent passes.
Render ==
    /\ \E p \in Props :
          /\ props' = p
          /\ view' = FusionControls(p)
    /\ invoked' = "none"
    /\ UNCHANGED imageVars

ClickIcon ==
    /\ view.rendered
    /\ invoked' = IF props.onIconClick THEN "onIconClick" ELSE "none"
    /\ UNCHANGED <<props, view, imageVars>>

ClickGenerate ==
    /\ view.rendered
    /\ invoked' = "onToggleGenerate"
    /\ UNCHANGED <<props, view, imageVars>>

ClickRemove ==
    /\ view.rendered
    /\ invoked' = "onRemove"
    /\ UNCHANGED <<props, view, imageVars>>

NextFusion == Render \/ ClickIcon \/ ClickGenerate \/ ClickRemove

SpecFusion == Init /\ [][NextFusion]_vars

----------------------------------------------------------------------------
(* Properties.                                                             *)

Max(a, b) == IF a >= b THEN a ELSE b
Min(a, b) == IF a <= b THEN a ELSE b
Abs(a) == IF a >= 0 THEN a ELSE -a

Performed(c) == Count(calls, c) > 0

\* image.onload of resizeBase64ImageIfNeeded ran, for a mode of the type
ResizeLoaded == fn = "resizeBase64ImageIfNeeded" /\ event = "load" /\ resizeMode \in LLMImageResizeMode

\* the max side the documentation gives each mode
DocumentedMaxSide(mode) ==
    CASE mode = "anthropic" -> 1568
      [] mode = "google" -> 3072
      [] mode = "openai-high-res" -> 2048
      [] mode = "openai-low-res" -> 512
      [] mode = "thumbnail-128" -> 128
      [] mode = "thumbnail-256" -> 256

\* the decoded image is already within the mode's bounds
WithinBounds ==
    /\ originalWidth <= DocumentedMaxSide(resizeMode)
    /\ originalHeight <= DocumentedMaxSide(resizeMode)
    /\ resizeMode = "openai-high-res" => Min(originalWidth, originalHeight) <= 768

NoEncoding == ~Performed("createCanvas") /\ ~Performed("drawImage") /\ ~Performed("canvasToDataURL")

ThumbnailModes == {"thumbnail-128", "thumbnail-256"}

\* C1: the target dimensions that reach the canvas have their longer side
\* within the mode's max side, for every mode and every original size.
C1_TargetWithinMaxSide ==
    (ResizeLoaded /\ Performed("drawImage"))
        => Max(newWidth, newHeight) <= DocumentedMaxSide(resizeMode)

C1_Witness ==
    /\ ResizeLoaded /\ Performed("drawImage")
    /\ resizeMode = "openai-high-res"
    /\ originalWidth > 2048 /\ originalHeight > 768
    /\ newHeight = 768 /\ newWidth > 768

\* C2 as stated: an image within the mode's bounds resolves to null and no
\* canvas is created, nothing drawn, nothing encoded, in every mode.
C2_WithinBoundsSkipsEncoding ==
    (ResizeLoaded /\ WithinBounds) => (result = "null" /\ NoEncoding)

\* C2 amended: that holds in every mode but the two thumbnail modes; a
\* thumbnail mode always goes on to the canvas, and for an image within
\* bounds the canvas has the original dimensions.
C2_WithinBoundsSkipsEncodingExceptThumbnails ==
    /\ (ResizeLoaded /\ WithinBounds /\ resizeMode \notin ThumbnailModes)
          => (result = "null" /\ NoEncoding)
    /\ (ResizeLoaded /\ resizeMode \in ThumbnailModes)
          => /\ Performed("createCanvas")
             /\ result # "null"
             /\ WithinBounds => (newWidth = originalWidth /\ newHeight = originalHeight)

C2_Witness ==
    /\ ResizeLoaded /\ WithinBounds
    /\ resizeMode = "openai-high-res"
    /\ originalWidth > 768 /\ originalHeight = 768
    /\ result = "null" /\ NoEncoding

\* C3: a decode failure (the image's error event, a conversion that threw)
\* ends every image function rejected or returning false, never resolved
\* with a result, and nothing is drawn, encoded or given a URL after it.
C3_DecodeFailureRejects ==
    (fn \in ImageFunctions /\ event = "error")
        => /\ pc = "settled"
           /\ result = (IF fn = "showImageDataURLInNewTab" THEN "false" ELSE "rejected")
           /\ ~Performed("drawImage") /\ ~Performed("canvasToDataURL") /\ ~Performed("asyncCanvasToBlob")
           /\ fn = "showImageDataURLInNewTab" => ~Performed("createObjectURL")

C3_Witness ==
    /\ fn = "resizeBase64ImageIfNeeded" /\ event = "error"
    /\ result = "rejected" /\ calls = <<"reject">>

\* C6: a call of resizeBase64ImageIfNeeded stays pending until the load or
\* the error event, and the handler of that event settles the promise
\* exactly once on every path, an unsupported mode included.
C6_SettledExactlyOnce ==
    fn = "resizeBase64ImageIfNeeded"
        => IF event = "none"
           THEN pc = "pending" /\ result = "pending" /\ Len(SettleCalls(calls)) = 0
           ELSE pc = "settled" /\ result # "pending" /\ Len(SettleCalls(calls)) = 1

C6_Witness ==
    /\ fn = "resizeBase64ImageIfNeeded" /\ event = "load"
    /\ resizeMode = "unsupported"
    /\ result = "rejected" /\ Len(SettleCalls(calls)) = 1

\* C7: in 'openai-high-res' mode the final target has its shorter side at
\* most 768, for every original size, squares included.
C7_ShortSideAtMost768 ==
    (ResizeLoaded /\ resizeMode = "openai-high-res")
        => Min(newWidth, newHeight) <= 768

\* n is within half a pixel of origOther * pinned / origPinned
HalfPixel(n, origOther, origPinned, pinned) ==
    2 * Abs(n * origPinned - origOther * pinned) <= origPinned

\* one side is pinned and the other is the original's, scaled and rounded
SingleScaling(pinned) ==
    \/ newWidth = pinned /\ HalfPixel(newHeight, originalHeight, originalWidth, pinned)
    \/ newHeight = pinned /\ HalfPixel(newWidth, originalWidth, originalHeight, pinned)

DimensionsChanged == newWidth # originalWidth \/ newHeight # originalHeight

ModeBounds(mode) == IF mode = "openai-high-res" THEN {2048, 768} ELSE {DocumentedMaxSide(mode)}

\* both stages of 'openai-high-res' changed the dimensions
BothStages ==
    /\ resizeMode = "openai-high-res"
    /\ Max(originalWidth, originalHeight) > 2048
    /\ Max(newWidth, newHeight) < 2048

\* the short side is 768 and the long side is less than two pixels from the
\* original's long side scaled by 768 / short
WithinTwoPixels ==
    \/ /\ newHeight = 768 /\ originalWidth > originalHeight
       /\ Abs(newWidth * originalHeight - originalWidth * 768) < 2 * originalHeight
    \/ /\ newWidth = 768 /\ originalWidth < originalHeight
       /\ Abs(newHeight * originalWidth - originalHeight * 768) < 2 * originalWidth

\* C8 as stated: whenever the dimensions change, one side is pinned to a
\* bound of the mode and the other is within half a pixel of the original's
\* proportional value, in every mode.
C8_SingleProportionalScaling ==
    (ResizeLoaded /\ DimensionsChanged)
        => \E pinned \in ModeBounds(resizeMode) : SingleScaling(pinned)

\* C8 amended: that holds whenever a single stage changed the dimensions;
\* when both stages of 'openai-high-res' did, the second scaled the rounded
\* result of the first, and the long side is within two pixels only.
C8_SingleScalingUnlessBothStages ==
    (ResizeLoaded /\ DimensionsChanged)
        => IF BothStages
           THEN WithinTwoPixels
           ELSE \E pinned \in ModeBounds(resizeMode) : SingleScaling(pinned)

C8_Witness ==
    /\ ResizeLoaded /\ DimensionsChanged
    /\ BothStages /\ WithinTwoPixels
    /\ ~SingleScaling(768)

\* C9: when a call of renderSVGToPNGBlob has settled, every object URL it
\* created has been revoked.
C9_ObjectUrlsRevoked ==
    (fn = "renderSVGToPNGBlob" /\ pc = "settled")
        => Count(calls, "revokeObjectURL") = Count(calls, "createObjectURL")

\* C10: whenever resizeBase64ImageIfNeeded draws, both target dimensions
\* are at least 1 and neither exceeds the original's.
C10_TargetPositiveAndNotUpscaled ==
    (ResizeLoaded /\ Performed("drawImage"))
        => /\ newWidth >= 1 /\ newHeight >= 1
           /\ newWidth <= originalWidth /\ newHeight <= originalHeight

\* C4: the generate/stop button shows exactly one of the three icons: stop
\* (tooltip 'Stop') iff isFusing; when not fusing, retry (tooltip 'Retry')
\* iff isUsable, and play (tooltip 'Start Merge') otherwise.
C4_GenerateButtonIcon ==
    view.rendered
        => LET g == view.generate
           IN  /\ Cardinality(g.icons) = 1
               /\ g.icons \subseteq {"StopRoundedIcon", "ReplayRoundedIcon", "PlayArrowRoundedIcon"}
               /\ ("StopRoundedIcon" \in g.icons) <=> props.isFusing
               /\ (g.tooltip = "Stop") <=> props.isFusing
               /\ ~props.isFusing =>
                     /\ ("ReplayRoundedIcon" \in g.icons) <=> props.isUsable
                     /\ (g.tooltip = "Retry") <=> props.isUsable
                     /\ ("PlayArrowRoundedIcon" \in g.icons) <=> ~props.isUsable
                     /\ (g.tooltip = "Start Merge") <=> ~props.isUsable

C4_Witness ==
    /\ view.rendered /\ ~props.isFusing /\ props.isUsable
    /\ view.generate.icons = {"ReplayRoundedIcon"} /\ view.generate.tooltip = "Retry"

\* C5 as stated: rendered with isFusing true, the view shows a spinner or
\* the factory icon, whatever the other props.
C5_FusingShowsSpinnerOrIcon ==
    (view.rendered /\ props.isFusing) => view.progressIcons # {}

\* C5 amended: rendered with isFusing true, the view shows a spinner or the
\* factory icon (one of them, never both) exactly when no llmComponent is
\* supplied and fusingProgressComponent is set or factory.Icon is defined;
\* it is the spinner exactly when fusingProgressComponent is set.
C5_SpinnerOrIconOnlyInTitleBox ==
    (view.rendered /\ props.isFusing)
        => /\ (view.progressIcons # {})
                 <=> (~props.llmComponent /\ (props.fusingProgressComponent \/ props.factoryIcon))
           /\ view.progressIcons \in {{}, {"CircularProgress"}, {"factory.Icon"}}
           /\ ("CircularProgress" \in view.progressIcons)
                 <=> (~props.llmComponent /\ props.fusingProgressComponent)

C5_Witness ==
    /\ view.rendered /\ props.isFusing
    /\ ~props.llmComponent /\ props.fusingProgressComponent
    /\ view.progressIcons = {"CircularProgress"}

====
